---- MODULE Spec2Model ----
(***************************************************************************)
(* A model of src/src/main.rs: a grid of nodes orbiting their resting      *)
(* centers around one oscillating attractor point, and the numbered frame  *)
(* capture path.                                                           *)
(*                                                                         *)
(* Numbers.  An f32 is modelled as an exact real of the form a + sqrt(r)   *)
(* with a and r rational (r = 0 for every coordinate), or as one of the    *)
(* IEEE specials NaN, +inf, -inf.  Lengths are in the program's own units. *)
(* Angles live on a grid of twelve directions whose sine and cosine are    *)
(* exact multiples of 1/5, so that sin^2 + cos^2 = 1 holds exactly; the    *)
(* bearing returned by angle_between is the grid direction nearest to the  *)
(* true angle.  The elapsed time enters only through sin(t/1.4) and        *)
(* sin(t/2.0); a clock sample is the pair of these two sines, each a       *)
(* multiple of 1/SinDen.                                                   *)
(***************************************************************************)
EXTENDS Integers, Sequences, FiniteSets, TLC

VARIABLES point, nodes, out_path, frame, captured, requests, time, cfg, pc

vars == <<point, nodes, out_path, frame, captured, requests, time, cfg, pc>>

(***************************************************************************)
(* Bounds of the model.                                                    *)
(***************************************************************************)
\* rows and cols of the grid (30 x 30 in the program), scaled down
Rows == 2
Cols == 3
\* sines are sampled as k / SinDen for k in -SinDen .. SinDen
SinDen == 1
\* a random colour channel is sampled as k / ColorDen for k in 0 .. ColorDen - 1
ColorDen == 1
\* frames drawn by a simulation run
SimFrames == 3
\* frames drawn by a capture run: past the export cap (MaxCaptured - 1 + this)
PastCap == 2
\* rows and cols tried on create_nodes alone
MaxDim == 3

(***************************************************************************)
(* Program constants.                                                      *)
(***************************************************************************)
WinSize == 1200
PointPad == 300
GridPad == 200
PointX0 == -50
PointY0 == 0
BaseRadius == 20
Orbit == 30
RadiusFloor == 2
RadiusNum == 1000
RadiusCap == 50
ColorDist == 100
MaxCaptured == 1000
PadWidth == 3

(***************************************************************************)
(* Exact rationals <<n, d>>, d > 0, in lowest terms.                       *)
(***************************************************************************)
Abs(n) == IF n < 0 THEN -n ELSE n

RECURSIVE GCD(_, _)
GCD(a, b) == IF b = 0 THEN a ELSE GCD(b, a % b)

Rat(n, d) ==
    LET s == IF d < 0 THEN -1 ELSE 1
        g == GCD(Abs(n), Abs(d))
    IN  <<(s * n) \div g, (s * d) \div g>>

RatAdd(p, q) ==
    IF p[2] = 1 /\ q[2] = 1 THEN <<p[1] + q[1], 1>>
    ELSE LET g == GCD(p[2], q[2])
             l == (p[2] \div g) * q[2]
         IN  Rat(p[1] * (l \div p[2]) + q[1] * (l \div q[2]), l)

RatNeg(p) == <<-p[1], p[2]>>

RatSub(p, q) == RatAdd(p, RatNeg(q))

RatMul(p, q) ==
    IF p[2] = 1 /\ q[2] = 1 THEN <<p[1] * q[1], 1>>
    ELSE LET g1 == GCD(Abs(p[1]), q[2])
             g2 == GCD(Abs(q[1]), p[2])
         IN  Rat((p[1] \div g1) * (q[1] \div g2), (p[2] \div g2) * (q[2] \div g1))

\* q # 0
RatInv(q) == Rat(q[2], q[1])

\* n1/d1 < n2/d2 by continued fractions: no product is formed
RECURSIVE FracLess(_, _, _, _)
FracLess(n1, d1, n2, d2) ==
    LET q1 == n1 \div d1
        q2 == n2 \div d2
        r1 == n1 % d1
        r2 == n2 % d2
    IN  IF q1 # q2 THEN q1 < q2
        ELSE IF r2 = 0 THEN FALSE
        ELSE IF r1 = 0 THEN TRUE
        ELSE FracLess(d2, r2, d1, r1)

RatLess(p, q) == FracLess(p[1], p[2], q[1], q[2])

RatLeq(p, q) == ~RatLess(q, p)

(***************************************************************************)
(* f32 values: [k, a, r] is a + sqrt(r) when k = "num".                    *)
(***************************************************************************)
Zero == <<0, 1>>

Real(a, r) == [k |-> "num", a |-> a, r |-> r]

Num(n) == Real(<<n, 1>>, Zero)

Frac(n, d) == Real(Rat(n, d), Zero)

NaN == [k |-> "nan", a |-> Zero, r |-> Zero]

PInf == [k |-> "inf", a |-> Zero, r |-> Zero]

NInf == [k |-> "ninf", a |-> Zero, r |-> Zero]

IsNum(x) == x.k = "num"

IsRational(x) == x.k = "num" /\ x.r = Zero

\* -1, 0 or 1 for a rational or an infinity
Sign(x) ==
    CASE x.k = "inf" -> 1
      [] x.k = "ninf" -> -1
      [] x.k = "num" -> IF x.a[1] > 0 \/ x.r[1] > 0 THEN 1
                        ELSE IF x.a[1] < 0 THEN -1 ELSE 0

FNeg(x) ==
    CASE x.k = "nan" -> NaN
      [] x.k = "inf" -> NInf
      [] x.k = "ninf" -> PInf
      [] IsRational(x) -> Real(RatNeg(x.a), Zero)

\* x + y; of two finite operands at most one carries a root
FAdd(x, y) ==
    CASE x.k = "nan" \/ y.k = "nan" -> NaN
      [] x.k = "inf" -> IF y.k = "ninf" THEN NaN ELSE PInf
      [] x.k = "ninf" -> IF y.k = "inf" THEN NaN ELSE NInf
      [] y.k = "inf" -> PInf
      [] y.k = "ninf" -> NInf
      [] x.r = Zero -> Real(RatAdd(x.a, y.a), y.r)
      [] y.r = Zero -> Real(RatAdd(x.a, y.a), x.r)

FSub(x, y) == FAdd(x, FNeg(y))

\* x * y for rationals and infinities
FMul(x, y) ==
    CASE x.k = "nan" \/ y.k = "nan" -> NaN
      [] x.k # "num" \/ y.k # "num" ->
            IF Sign(x) * Sign(y) = 0 THEN NaN
            ELSE IF Sign(x) * Sign(y) > 0 THEN PInf ELSE NInf
      [] IsRational(x) /\ IsRational(y) -> Real(RatMul(x.a, y.a), Zero)

\* x / y for a rational x and a y that is rational, a pure root or infinite
FDiv(x, y) ==
    CASE x.k = "nan" \/ y.k = "nan" -> NaN
      [] x.k # "num" /\ y.k # "num" -> NaN
      [] x.k # "num" ->
            IF (Sign(x) > 0) = (Sign(y) >= 0) THEN PInf ELSE NInf
      [] y.k # "num" -> Num(0)
      [] Sign(y) = 0 ->
            IF Sign(x) = 0 THEN NaN ELSE IF Sign(x) > 0 THEN PInf ELSE NInf
      [] IsRational(x) /\ IsRational(y) -> Real(RatMul(x.a, RatInv(y.a)), Zero)
      [] IsRational(x) /\ y.a = Zero ->
            IF Sign(x) >= 0
            THEN Real(Zero, RatMul(RatMul(x.a, x.a), RatInv(y.r)))
            ELSE NaN

\* sqrt of a rational
FSqrt(x) ==
    CASE x.k = "nan" \/ x.k = "ninf" -> NaN
      [] x.k = "inf" -> PInf
      [] IsRational(x) -> IF x.a[1] < 0 THEN NaN ELSE Real(Zero, x.a)

\* x < y, false when either is NaN; a root may stand on one side only
FLess(x, y) ==
    CASE x.k = "nan" \/ y.k = "nan" -> FALSE
      [] x.k = "inf" -> FALSE
      [] y.k = "ninf" -> FALSE
      [] x.k = "ninf" \/ y.k = "inf" -> TRUE
      [] y.r = Zero ->
            LET c == RatSub(y.a, x.a)
            IN  c[1] > 0 /\ RatLess(x.r, RatMul(c, c))
      [] x.r = Zero ->
            LET c == RatSub(x.a, y.a)
            IN  c[1] < 0 \/ RatLess(RatMul(c, c), y.r)

FLeq(x, y) == x.k # "nan" /\ y.k # "nan" /\ ~FLess(y, x)

\* f32::min: the other operand when one is NaN
FMin(x, y) ==
    IF x.k = "nan" THEN y
    ELSE IF y.k = "nan" THEN x
    ELSE IF FLess(y, x) THEN y ELSE x

(***************************************************************************)
(* Angles: the grid of directions, as <<5 sin, 5 cos>>, and NaN.           *)
(***************************************************************************)
Directions ==
    << <<0, 5>>, <<3, 4>>, <<4, 3>>, <<5, 0>>, <<4, -3>>, <<3, -4>>,
       <<0, -5>>, <<-3, -4>>, <<-4, -3>>, <<-5, 0>>, <<-4, 3>>, <<-3, 4>> >>

Angle(i) == [k |-> "num", i |-> i]

AngleNaN == [k |-> "nan", i |-> 0]

Sin(rad) == IF rad.k = "nan" THEN NaN ELSE Frac(Directions[rad.i][1], 5)

Cos(rad) == IF rad.k = "nan" THEN NaN ELSE Frac(Directions[rad.i][2], 5)

Vec2(x, y) == [x |-> x, y |-> y]

Dot(a, b) == FAdd(FMul(a.x, b.x), FMul(a.y, b.y))

PerpDot(a, b) == FSub(FMul(a.x, b.y), FMul(a.y, b.x))

\* the direction of the grid nearest to that of (dot, perp), two rationals
\* brought to a common denominator: the one (dot, perp) points along the most,
\* the first of them when several are as near
Nearest(dot, perp) ==
    LET l == (dot[2] \div GCD(dot[2], perp[2])) * perp[2]
        c == dot[1] * (l \div dot[2])
        s == perp[1] * (l \div perp[2])
        along == [i \in 1 .. Len(Directions) |->
                    c * Directions[i][2] + s * Directions[i][1]]
    IN  CHOOSE i \in 1 .. Len(Directions) :
            \A j \in 1 .. Len(Directions) :
                along[j] < along[i] \/ (along[j] = along[i] /\ i <= j)

\* Vec2::angle_between: acos(dot / sqrt(|a|^2 |b|^2)) signed by perp_dot, which
\* is NaN when a length is zero (the product |a|^2 |b|^2 is zero exactly when a
\* factor is) or a component is not finite; otherwise the direction of
\* (dot, perp_dot), here the nearest direction of the grid
AngleBetween(a, b) ==
    LET dot == Dot(a, b)
        perp == PerpDot(a, b)
        la == Dot(a, a)
        lb == Dot(b, b)
    IN  IF ~IsNum(dot) \/ ~IsNum(perp) \/ ~IsNum(la) \/ ~IsNum(lb)
           \/ Sign(la) = 0 \/ Sign(lb) = 0
        THEN AngleNaN
        ELSE Angle(Nearest(dot.a, perp.a))

\* Vec2::distance
Distance(a, b) ==
    LET d == Vec2(FSub(a.x, b.x), FSub(a.y, b.y))
    IN  FSqrt(Dot(d, d))

(***************************************************************************)
(* Rect: the window rectangle, centred on the origin, and Rect::pad.       *)
(***************************************************************************)
WindowRect ==
    [left |-> Frac(-WinSize, 2), right |-> Frac(WinSize, 2),
     bottom |-> Frac(-WinSize, 2), top |-> Frac(WinSize, 2)]

Pad(rect, pad) ==
    [left |-> FAdd(rect.left, Num(pad)), right |-> FSub(rect.right, Num(pad)),
     bottom |-> FAdd(rect.bottom, Num(pad)), top |-> FSub(rect.top, Num(pad))]

(***************************************************************************)
(* Point: the attractor.                                                   *)
(***************************************************************************)
PointNew(x, y, boundary) ==
    [x |-> x, y |-> y,
     min_x |-> boundary.left, max_x |-> boundary.right,
     min_y |-> boundary.bottom, max_y |-> boundary.top]

\* nannou's map_range
MapRange(val, in_min, in_max, out_min, out_max) ==
    FAdd(FMul(FDiv(FSub(val, in_min), FSub(in_max, in_min)),
              FSub(out_max, out_min)),
         out_min)

\* the clock samples: <<k1, k2>> stands for an elapsed time t with
\* sin(t / 1.4) = k1 / SinDen and sin(t / 2.0) = k2 / SinDen
Clock == (-SinDen .. SinDen) \X (-SinDen .. SinDen)

\* a Point::update that maps the sines from [0, 1] instead of [-1, 1]
PointUpdateFromZero(p, t) ==
    LET sin1 == Frac(t[1], SinDen)
        sin2 == Frac(t[2], SinDen)
    IN  [p EXCEPT !.x = MapRange(sin1, Num(0), Num(1), p.min_x, p.max_x),
                  !.y = MapRange(sin2, Num(0), Num(1), p.min_y, p.max_y)]

\* Point::update
PointUpdate(p, t) ==
    LET sin1 == Frac(t[1], SinDen)
        sin2 == Frac(t[2], SinDen)
    IN  [p EXCEPT !.x = MapRange(sin1, Num(-1), Num(1), p.min_x, p.max_x),
                  !.y = MapRange(sin2, Num(-1), Num(1), p.min_y, p.max_y)]

(***************************************************************************)
(* Node.                                                                   *)
(***************************************************************************)
Srgba(r, g, b, a) == [r |-> r, g |-> g, b |-> b, a |-> a]

White == Srgba(Num(1), Num(1), Num(1), Num(1))

\* the values random_f32 is sampled at
Channels == {Frac(k, ColorDen) : k \in 0 .. ColorDen - 1}

\* one draw of the three channels
Draws == Channels \X Channels \X Channels

NodeNew(center, x, y, radius) ==
    [center |-> center, x |-> x, y |-> y, radius |-> radius, color |-> White]

\* the orbit offset of Node::update
OrbitRadius == Num(Orbit)

\* the position Node::update moves the node to
NodePlace(node, target) ==
    LET rad == AngleBetween(node.center, Vec2(target.x, target.y))
    IN  Vec2(FAdd(node.center.x, FMul(Sin(rad), OrbitRadius)),
             FAdd(node.center.y, FMul(Cos(rad), OrbitRadius)))

\* the distance Node::update measures: new position to target
NodeDist(node, target) ==
    Distance(NodePlace(node, target), Vec2(target.x, target.y))

\* a radius without the cap
NodeRadiusUncapped(dist) == FAdd(Num(RadiusFloor), FDiv(Num(RadiusNum), dist))

\* the radius Node::update sets from dist
NodeRadius(dist) ==
    FAdd(Num(RadiusFloor), FMin(FDiv(Num(RadiusNum), dist), Num(RadiusCap)))

\* a colour branch taken at the threshold too
NodeNearInclusive(dist) == FLeq(dist, Num(ColorDist))

\* the branch of Node::update that draws a random colour
NodeNear(dist) == FLess(dist, Num(ColorDist))

\* a Node::update that moves the resting center along with the node
NodeUpdateRecentering(node, target, rnd) ==
    LET pos == NodePlace(node, target)
        dist == Distance(pos, Vec2(target.x, target.y))
    IN  [node EXCEPT !.center = pos, !.x = pos.x, !.y = pos.y,
                     !.radius = NodeRadius(dist),
                     !.color = IF NodeNear(dist)
                               THEN Srgba(rnd[1], rnd[2], rnd[3], Num(1))
                               ELSE White]

\* Node::update; rnd is what the three random_f32 calls return, if made
NodeUpdate(node, target, rnd) ==
    LET pos == NodePlace(node, target)
        dist == Distance(pos, Vec2(target.x, target.y))
    IN  [node EXCEPT !.x = pos.x, !.y = pos.y,
                     !.radius = NodeRadius(dist),
                     !.color = IF NodeNear(dist)
                               THEN Srgba(rnd[1], rnd[2], rnd[3], Num(1))
                               ELSE White]

(***************************************************************************)
(* create_nodes.                                                           *)
(***************************************************************************)
\* the node create_nodes builds around one center
CellNode(x_center, y_center, target, radius) ==
    LET rad == AngleBetween(Vec2(x_center, y_center), Vec2(target.x, target.y))
        x == FAdd(x_center, FMul(Sin(rad), radius))
        y == FAdd(y_center, FMul(Cos(rad), radius))
    IN  NodeNew(Vec2(x_center, y_center), x, y, radius)

\* the body of the inner loop: the node of one (row, col)
GridCell(row, col, win_p, x_gap, y_gap, target, radius) ==
    CellNode(FAdd(win_p.left, FMul(Num(row), x_gap)),
             FAdd(win_p.bottom, FMul(Num(col), y_gap)),
             target, radius)

XGap(cols, win_p) ==
    FDiv(FSub(win_p.right, win_p.left), FSub(Num(cols), Num(1)))

YGap(rows, win_p) ==
    FDiv(FSub(win_p.top, win_p.bottom), FSub(Num(rows), Num(1)))

\* a create_nodes whose loops are nested the other way round
CreateNodesColumnMajor(rows, cols, win, target, radius) ==
    LET win_p == Pad(win, GridPad)
        x_gap == XGap(cols, win_p)
        y_gap == YGap(rows, win_p)
        ColNodes(col) ==
            LET inner[row \in 0 .. rows] ==
                    IF row = 0 THEN <<>>
                    ELSE Append(inner[row - 1],
                                GridCell(row - 1, col, win_p, x_gap, y_gap, target, radius))
            IN  inner[rows]
        outer[col \in 0 .. cols] ==
            IF col = 0 THEN <<>> ELSE outer[col - 1] \o ColNodes(col - 1)
    IN  outer[cols]

CreateNodes(rows, cols, win, target, radius) ==
    LET win_p == Pad(win, GridPad)
        x_gap == XGap(cols, win_p)
        y_gap == YGap(rows, win_p)
        RowNodes(row) ==
            LET inner[col \in 0 .. cols] ==
                    IF col = 0 THEN <<>>
                    ELSE Append(inner[col - 1],
                                GridCell(row, col - 1, win_p, x_gap, y_gap, target, radius))
            IN  inner[cols]
        outer[row \in 0 .. rows] ==
            IF row = 0 THEN <<>> ELSE outer[row - 1] \o RowNodes(row - 1)
    IN  outer[rows]

(***************************************************************************)
(* Paths: a PathBuf is a sequence of components, a component a sequence of *)
(* characters.                                                             *)
(***************************************************************************)
DigitChars == <<"0", "1", "2", "3", "4", "5", "6", "7", "8", "9">>

\* the decimal digits of n >= 0
RECURSIVE Decimal(_)
Decimal(n) ==
    IF n < 10 THEN <<DigitChars[n + 1]>>
    ELSE Append(Decimal(n \div 10), DigitChars[(n % 10) + 1])

RECURSIVE PadLeft(_, _, _)
PadLeft(s, width, ch) ==
    IF Len(s) >= width THEN s ELSE PadLeft(<<ch>> \o s, width, ch)

\* a frame number written without padding
FormatPlain(n) == Decimal(n)

\* format!("{:03}", n)
Format03(n) == PadLeft(Decimal(n), PadWidth, "0")

\* PathBuf::join with a relative, single-component path
Join(path, name) == Append(path, name)

\* the place of the dot that starts the extension of a file name, or 0
ExtDot(name) ==
    LET dots == {i \in 2 .. Len(name) : name[i] = "."}
    IN  IF dots = {} THEN 0 ELSE CHOOSE i \in dots : \A j \in dots : j <= i

\* Path::with_extension with a non-empty extension
WithExtension(path, ext) ==
    IF path = <<>> THEN path
    ELSE LET name == path[Len(path)]
             dot == ExtDot(name)
             stem == IF dot = 0 THEN name ELSE SubSeq(name, 1, dot - 1)
         IN  [path EXCEPT ![Len(path)] = stem \o <<".">> \o ext]

Png == <<"p", "n", "g">>

\* captured_frame_path
CapturedFramePath(root, nth) == WithExtension(Join(root, Format03(nth)), Png)

\* create_output_path: <project_path>/out/<UTC time of the start>
Starts ==
    { <<"2", "0", "2", "1", "-", "0", "1", "-", "0", "1", "_",
        "0", "0", ":", "0", "0", ":", "0", "0">>,
      <<"2", "0", "2", "1", "-", "0", "1", "-", "0", "1", "_",
        "0", "0", ":", "0", "0", ":", "0", "1">> }

CreateOutputPath(start) == << <<"p", "r", "o", "j">>, <<"o", "u", "t">>, start >>

(***************************************************************************)
(* The program: model() builds the state, then each frame runs update and  *)
(* view.                                                                   *)
(***************************************************************************)
At(place) == [at |-> place, i |-> 0]

\* model(), lines 99-100: the attractor
ModelPoint == PointNew(Num(PointX0), Num(PointY0), Pad(WindowRect, PointPad))

\* the state model() returns for a run started at `start`
ModelInit(rows, cols, start) ==
    /\ point = ModelPoint
    /\ nodes = CreateNodes(rows, cols, WindowRect, ModelPoint, Num(BaseRadius))
    /\ out_path = CreateOutputPath(start)
    /\ cfg = [rows |-> rows, cols |-> cols]
    /\ frame = 0
    /\ captured = <<>>
    /\ requests = 0
    /\ time = <<0, 0>>

Init ==
    /\ \E start \in Starts : ModelInit(Rows, Cols, start)
    /\ pc = At("update")

\* a node loop that reads the attractor as it was before this frame's update
LoopTargetStale(before, after) == before

\* the attractor the node loop of update reads
LoopTarget(before, after) == after

\* the nodes whose update draws a colour against target
Near(ns, target) ==
    {i \in 1 .. Len(ns) : NodeNear(NodeDist(ns[i], target))}

\* update: the attractor first, then every node against it
Update(t) ==
    /\ pc.at = "update"
    /\ LET moved == PointUpdate(point, t)
           target == LoopTarget(point, moved)
       IN  /\ point' = moved
           /\ \E rnd \in [Near(nodes, target) -> Draws] :
                nodes' = [i \in 1 .. Len(nodes) |->
                            NodeUpdate(nodes[i], target,
                                       IF i \in DOMAIN rnd THEN rnd[i]
                                       ELSE <<Num(0), Num(0), Num(0)>>)]
    /\ time' = t
    /\ pc' = At("view")
    /\ UNCHANGED <<out_path, frame, captured, requests, cfg>>

\* a capture that goes on for one frame more
CapturesInclusive(nth) == nth <= MaxCaptured

\* whether view captures frame nth
Captures(nth) == nth < MaxCaptured

\* view: the draw changes nothing; while Captures, the window is asked to
\* capture the frame to its path (captured holds the latest such request,
\* requests counts them)
View(limit) ==
    /\ pc.at = "view"
    /\ frame < limit
    /\ IF Captures(frame)
       THEN /\ captured' = <<[nth |-> frame,
                              path |-> CapturedFramePath(out_path, frame)]>>
            /\ requests' = requests + 1
       ELSE UNCHANGED <<captured, requests>>
    /\ frame' = frame + 1
    /\ pc' = At("update")
    /\ UNCHANGED <<point, nodes, out_path, time, cfg>>

Next ==
    \/ \E t \in Clock : Update(t)
    \/ View(SimFrames)

Spec == Init /\ [][Next]_vars

(***************************************************************************)
(* A capture run: frames are drawn past the export cap, the clock standing *)
(* at one sample (t = 21 pi: sin(t / 1.4) = 0 and sin(t / 2.0) = 1).       *)
(***************************************************************************)
FrozenClock == <<0, SinDen>>

NextFrames ==
    \/ Update(FrozenClock)
    \/ View(MaxCaptured + PastCap)

SpecFrames == Init /\ [][NextFrames]_vars

(***************************************************************************)
(* create_nodes alone, on drawn rows and cols and a drawn target.          *)
(***************************************************************************)
InitGrid ==
    /\ \E t \in Clock : point = PointUpdate(ModelPoint, t)
    /\ cfg \in [rows : 1 .. MaxDim, cols : 1 .. MaxDim]
    /\ nodes = <<>>
    /\ out_path = <<>>
    /\ frame = 0
    /\ captured = <<>>
    /\ requests = 0
    /\ time = <<0, 0>>
    /\ pc = At("create")

CreateGrid ==
    /\ pc.at = "create"
    /\ nodes' = CreateNodes(cfg.rows, cfg.cols, WindowRect, point, Num(BaseRadius))
    /\ pc' = At("created")
    /\ UNCHANGED <<point, out_path, frame, captured, requests, time, cfg>>

NextGrid == CreateGrid

SpecGrid == InitGrid /\ [][NextGrid]_vars

(***************************************************************************)
(* Point::update and Node::update alone, called in any order on two nodes  *)
(* built around drawn centers.                                             *)
(***************************************************************************)
Center(x, y) == <<Num(x), Num(y)>>

\* pairs of centers: the new position meets the target (0, 300) or lies 10,
\* 100 away from it; 70 away from (0, -300); far from every target; no bearing
UnitCenters ==
    { <<Center(0, 270), Center(0, 170)>>,
      <<Center(0, 260), Center(0, -400)>>,
      <<Center(400, 400), Center(0, 0)>> }

\* the elapsed times tried: t = 0, and three with one sine 0 and the other 1 or -1
UnitClock == {<<0, 0>>, <<0, SinDen>>, <<0, -SinDen>>, <<SinDen, 0>>}

InitNode ==
    /\ point = ModelPoint
    /\ \E cs \in UnitCenters :
          nodes = [i \in 1 .. 2 |->
                     CellNode(cs[i][1], cs[i][2], ModelPoint, Num(BaseRadius))]
    /\ out_path = <<>>
    /\ frame = 0
    /\ captured = <<>>
    /\ requests = 0
    /\ time = <<0, 0>>
    /\ cfg = [rows |-> 1, cols |-> 2]
    /\ pc = At("new")

\* model.point.update(&app)
UnitPointUpdate(t) ==
    /\ pc.at \in {"new", "point", "node"}
    /\ point' = PointUpdate(point, t)
    /\ time' = t
    /\ pc' = At("point")
    /\ UNCHANGED <<nodes, out_path, frame, captured, requests, cfg>>

\* model.nodes[i].update(&model.point)
UnitNodeUpdate(i) ==
    /\ pc.at \in {"new", "point", "node"}
    /\ \E rnd \in (IF i \in Near(nodes, point) THEN Draws ELSE {<<Num(0), Num(0), Num(0)>>}) :
          nodes' = [nodes EXCEPT ![i] = NodeUpdate(nodes[i], point, rnd)]
    /\ pc' = [at |-> "node", i |-> i]
    /\ UNCHANGED <<point, out_path, frame, captured, requests, time, cfg>>

NextNode ==
    \/ \E t \in UnitClock : UnitPointUpdate(t)
    \/ \E i \in 1 .. Len(nodes) : UnitNodeUpdate(i)

SpecNode == InitNode /\ [][NextNode]_vars

(***************************************************************************)
(* The claims.                                                             *)
(***************************************************************************)
Position(node) == Vec2(node.x, node.y)

Target == Vec2(point.x, point.y)

\* C1: when update returns (the frame is about to be drawn), the attractor
\* stands where this frame's elapsed time puts it, both coordinates, and every
\* node holds the position and radius, and when it is not near the white,
\* that Node::update computes against that very attractor position.
C1_NodesReadAdvancedAttractor ==
    pc.at = "view" =>
        LET now == PointUpdate(point, time)
        IN  /\ point = now
            /\ \A i \in 1 .. Len(nodes) :
                  LET pos == NodePlace(nodes[i], now)
                      dist == Distance(pos, Vec2(now.x, now.y))
                  IN  /\ Position(nodes[i]) = pos
                      /\ nodes[i].radius = NodeRadius(dist)
                      /\ ~NodeNear(dist) => nodes[i].color = White
                      /\ nodes[i].color.a = Num(1)

\* C1 witness: the second frame's update has run, with the attractor moved
C1_SecondUpdateDone == pc.at = "view" /\ frame = 1 /\ time = <<0, SinDen>>

\* C2: the capture requests made so far are exactly one for each drawn frame
\* of index 0 .. 999, the latest of them for the last such frame, and none for
\* a frame of index 1000 or more.
C2_CapturedIffBelowCap ==
    /\ requests = (IF frame < 1000 THEN frame ELSE 1000)
    /\ Len(captured) = (IF frame = 0 THEN 0 ELSE 1)
    /\ captured # <<>> => captured[1].nth = requests - 1

\* C2 witness: a frame of index 1000 or more has been drawn
C2_PastTheCap == frame > 1000

\* the number a character of DigitChars stands for
DigitValue(ch) == CHOOSE d \in 0 .. 9 : DigitChars[d + 1] = ch

\* C3: the path requested for frame n is the output root followed by the
\* three decimal digits of n and ".png" (007.png for frame 7), and n can be
\* read back from it, so that two frames never get the same path.
C3_FramePath ==
    captured # <<>> =>
        LET c == captured[1]
            n == c.nth
            name == c.path[Len(c.path)]
        IN  /\ Len(c.path) = Len(out_path) + 1
            /\ SubSeq(c.path, 1, Len(out_path)) = out_path
            /\ Len(name) = 7
            /\ SubSeq(name, 4, 7) = <<".", "p", "n", "g">>
            /\ \A k \in 1 .. 3 : name[k] \in {DigitChars[d] : d \in 1 .. 10}
            /\ 100 * DigitValue(name[1]) + 10 * DigitValue(name[2])
                  + DigitValue(name[3]) = n
            /\ n = 7 => name = <<"0", "0", "7", ".", "p", "n", "g">>

\* C3 witness: the path of frame 999, the last to be captured, was requested
C3_LastCaptured == captured # <<>> /\ captured[1].nth = 999

\* C4 (as claimed): every node's position lies exactly 30 from its resting
\* center, from grid construction onward.
C4_OrbitThirty ==
    \A i \in 1 .. Len(nodes) :
        Distance(Position(nodes[i]), nodes[i].center) = FSqrt(Num(30 * 30))

\* C5: every node's radius lies in [2, 52]; right after Node::update it is 52
\* when the node is within 20 of the target (at it, too) or has no position,
\* and otherwise 2 + 1000 / dist.
C5_RadiusRange ==
    /\ \A i \in 1 .. Len(nodes) :
          FLeq(Num(2), nodes[i].radius) /\ FLeq(nodes[i].radius, Num(52))
    /\ pc.at = "node" =>
          LET n == nodes[pc.i]
              dist == Distance(Position(n), Target)
          IN  IF dist.k = "nan" \/ RatLeq(dist.r, <<400, 1>>)
              THEN n.radius = Num(52)
              ELSE /\ n.radius.a = <<2, 1>>
                   /\ RatMul(n.radius.r, dist.r) = <<1000000, 1>>

\* C5 witness: Node::update has put a node on the target itself (dist = 0)
C5_OnTheTarget == pc.at = "node" /\ Position(nodes[pc.i]) = Target

\* C6: the attractor's bounding box is the window rectangle padded by 300, and
\* its position lies within it.
C6_AttractorInBox ==
    /\ point.min_x = Num(-300) /\ point.max_x = Num(300)
    /\ point.min_y = Num(-300) /\ point.max_y = Num(300)
    /\ FLeq(point.min_x, point.x) /\ FLeq(point.x, point.max_x)
    /\ FLeq(point.min_y, point.y) /\ FLeq(point.y, point.max_y)

\* C6 witness: an update has put the attractor on the left edge of its box
C6_OnTheEdge == pc.at = "view" /\ point.x = point.min_x

C8_NodeUpdateFrame ==
    [][ /\ Len(nodes') = Len(nodes)
        /\ \A j \in 1 .. Len(nodes) : nodes'[j].center = nodes[j].center
        /\ pc'.at = "node" =>
              /\ point' = point
              /\ \A j \in 1 .. Len(nodes) : j # pc'.i => nodes'[j] = nodes[j]
      ]_vars

\* C8 witness: node 1 has been updated, node 2 is as constructed
C8_OneNodeUpdated ==
    /\ pc.at = "node" /\ pc.i = 1
    /\ nodes[1].radius # Num(BaseRadius)
    /\ nodes[2].radius = Num(BaseRadius)

\* C9: there are rows * cols nodes, and the node at row * cols + col has the
\* resting center (padded_left + row * col_spacing, padded_bottom + col *
\* row_spacing), in every state of a run.
C9_GridRowMajor ==
    /\ Len(nodes) = Rows * Cols
    /\ \A row \in 0 .. Rows - 1 : \A col \in 0 .. Cols - 1 :
          nodes[row * Cols + col + 1].center =
              Vec2(FAdd(Num(-400), FMul(Num(row), Frac(800, Cols - 1))),
                   FAdd(Num(-400), FMul(Num(col), Frac(800, Rows - 1))))

\* C9 witness: a simulation step and a frame draw have happened
C9_AfterStepAndDraw == pc.at = "update" /\ frame = 1

\* C10: right after Node::update, a node 100 or more from the target is white,
\* and a nearer one has alpha 1 and its other channels in [0, 1].
C10_ColourByDistance ==
    pc.at = "node" =>
        LET n == nodes[pc.i]
            dist == Distance(Position(n), Target)
        IN  /\ FLeq(Num(100), dist) => n.color = White
            /\ FLess(dist, Num(100)) =>
                  /\ n.color.a = Num(1)
                  /\ \A ch \in {n.color.r, n.color.g, n.color.b} :
                        FLeq(Num(0), ch) /\ FLeq(ch, Num(1))

\* C10 witness: Node::update has put a node exactly 100 from the target
C10_AtTheThreshold ==
    pc.at = "node" /\ Distance(Position(nodes[pc.i]), Target) = FSqrt(Num(100 * 100))

====
